---- MODULE Spec2Model ----
(***************************************************************************)
(* Model of flwterm's incremental max-flow engines:                        *)
(*   core/ford_fulkerson.py   FordFulkerson   (plain BFS augmentation)     *)
(*   core/capacity_scaling.py CapacityScaling (delta-filtered augmentation)*)
(* driven from the edge list tui.py keeps in rail_data.                    *)
(*                                                                         *)
(* A graph (networkx DiGraph) is a function from its arcs <<u, v>> to the  *)
(* record of the arc's attributes; its nodes are the endpoints of its arcs *)
(* (the engines only ever call add_edge and clear).                        *)
(***************************************************************************)
EXTENDS Integers, Sequences, FiniteSets, TLC

VARIABLES rail_data,    \* the edge list both engines are built from
          ff_graph,     \* FordFulkerson.graph
          ff_flow_val,  \* FordFulkerson.flow_val
          ff_res,       \* outcome of the last FordFulkerson.step() since the build
          cs_graph,     \* CapacityScaling.graph
          cs_delta,     \* CapacityScaling.delta
          cs_res,       \* outcome of the last CapacityScaling.step() since the build
          cs_total,     \* sum of the bottlenecks returned by CapacityScaling.step() since the build
          arcade        \* the last call of an arcade solver: its input and what it returned

vars == <<rail_data, ff_graph, ff_flow_val, ff_res, cs_graph, cs_delta, cs_res, cs_total, arcade>>

ff_vars == <<ff_graph, ff_flow_val, ff_res>>

cs_vars == <<cs_graph, cs_delta, cs_res, cs_total>>

-----------------------------------------------------------------------------
(* Bounds of the generated edge lists *)

MaxEdges == 2

MaxCap == 2

GenNodes == {"S", "A", "T"}

(* default arguments of step(self, source='S', sink='T') *)
Source == "S"

Sink == "T"

-----------------------------------------------------------------------------
(* Inputs *)

Edge(u, v, c) == [u |-> u, v |-> v, capacity |-> c]

GenEdges == {Edge(u, v, c) : u \in GenNodes, v \in GenNodes, c \in 0..MaxCap}

GenEdgeLists == UNION {[1..n -> GenEdges] : n \in 0..MaxEdges}

(* tui.py DEFAULT_RAIL_DATA["edges"] *)
DEFAULT_RAIL_DATA ==
    << Edge("S", "A", 10), Edge("S", "B", 10),
       Edge("A", "C", 8),  Edge("B", "C", 6),
       Edge("A", "D", 4),  Edge("B", "E", 8),
       Edge("C", "E", 6),  Edge("D", "T", 10),
       Edge("E", "T", 10), Edge("C", "D", 5) >>

(* the diamond S->A->T, S->B->T with all capacities 10 *)
DiamondData ==
    << Edge("S", "A", 10), Edge("A", "T", 10),
       Edge("S", "B", 10), Edge("B", "T", 10) >>

(* one short path S-A-B-T that uses an arc of each of two longer disjoint paths *)
BlockingData ==
    << Edge("S", "A", 1), Edge("A", "B", 1), Edge("B", "T", 1),
       Edge("A", "C", 1), Edge("C", "E", 1), Edge("E", "T", 1),
       Edge("S", "D", 1), Edge("D", "F", 1), Edge("F", "B", 1) >>

(* a fat path S-A-B-T that the scaling phases take first *)
ScalingGapData ==
    << Edge("S", "A", 2), Edge("A", "B", 2), Edge("A", "T", 1),
       Edge("T", "A", 2), Edge("B", "T", 2), Edge("T", "S", 3),
       Edge("S", "B", 1) >>

(* edge lists that declare at least one arc with a negative capacity *)
NegativeCaps == {-1, -2}

NegativeEdges == {Edge(u, v, c) : u \in GenNodes, v \in GenNodes, c \in NegativeCaps}

NegativeEdgeLists ==
    {edges \in UNION {[1..n -> GenEdges \cup NegativeEdges] : n \in 1..MaxEdges} :
        \E i \in 1..Len(edges) : edges[i].capacity < 0}

NamedEdgeLists == {DEFAULT_RAIL_DATA, DiamondData, BlockingData, ScalingGapData}

EdgeLists == GenEdgeLists \cup NamedEdgeLists

-----------------------------------------------------------------------------
(* Graph helpers *)

Arc(u, v) == <<u, v>>

(* F applied to the value of x: x is evaluated once, before F uses it *)
WithValue(x, F(_)) == CHOOSE r \in {F(v) : v \in {x}} : TRUE

EmptyGraph == [a \in {} |-> [capacity |-> 0, flow |-> 0]]

NodesOf(g) == {a[1] : a \in DOMAIN g} \cup {a[2] : a \in DOMAIN g}

HasEdge(g, u, v) == Arc(u, v) \in DOMAIN g

(* graph.add_edge(u, v, capacity=c, flow=0): creates the arc or overwrites its attributes *)
AddEdgeAttr(g, u, v, c) ==
    [a \in DOMAIN g \cup {Arc(u, v)} |->
        IF a = Arc(u, v) THEN [capacity |-> c, flow |-> 0] ELSE g[a]]

(* body of the build loop: the declared arc, then the zero-capacity reverse arc if absent *)
AddDeclaredEdge(g, e) ==
    LET g1 == AddEdgeAttr(g, e.u, e.v, e.capacity)
    IN  IF HasEdge(g1, e.v, e.u) THEN g1 ELSE AddEdgeAttr(g1, e.v, e.u, 0)

RECURSIVE BuildFrom(_, _, _)
BuildFrom(g, edges, i) ==
    IF i > Len(edges) THEN g
    ELSE WithValue(AddDeclaredEdge(g, edges[i]), LAMBDA g1 : BuildFrom(g1, edges, i + 1))

(* the graph of an engine constructed anew and built from edges *)
BuildGraph(edges) == BuildFrom(EmptyGraph, edges, 1)

(* variant: the graph is not cleared *)
ClearNothing(g) == g

(* self.graph.clear() *)
Clear(g) == EmptyGraph

(* build_graph on an engine whose graph is g: graph.clear() followed by the *)
(* loop over data['edges']                                                  *)
RebuildGraph(g, edges) == BuildFrom(Clear(g), edges, 1)

RECURSIVE MaxCapFrom(_, _, _)
MaxCapFrom(m, edges, i) ==
    IF i > Len(edges) THEN m
    ELSE MaxCapFrom(IF edges[i].capacity > m THEN edges[i].capacity ELSE m, edges, i + 1)

(* max_cap of CapacityScaling.build_graph *)
MaxDeclaredCap(edges) == MaxCapFrom(0, edges, 1)

(* variant: the loop test written with < instead of <= *)
RECURSIVE DoubleWhileStrict(_, _)
DoubleWhileStrict(d, max_cap) ==
    IF d * 2 < max_cap THEN DoubleWhileStrict(d * 2, max_cap) ELSE d

RECURSIVE DoubleWhile(_, _)
DoubleWhile(d, max_cap) ==
    IF d * 2 <= max_cap THEN DoubleWhile(d * 2, max_cap) ELSE d

(* self.delta = 1; while self.delta * 2 <= max_cap: self.delta *= 2 *)
InitialDelta(max_cap) == DoubleWhile(1, max_cap)

-----------------------------------------------------------------------------
(* Residual graphs: a function from the kept arcs to their residual capacity *)

Residual(g, a) == g[a].capacity - g[a].flow

(* variant: arcs without residual capacity are kept *)
GetResidualGraphAll(g) ==
    [a \in {b \in DOMAIN g : Residual(g, b) >= 0} |-> Residual(g, a)]

(* FordFulkerson.get_residual_graph: arcs with residual > 0 *)
GetResidualGraph(g) ==
    [a \in {b \in DOMAIN g : Residual(g, b) > 0} |-> Residual(g, a)]

(* CapacityScaling.step: arcs with residual >= delta *)
DeltaResidualGraph(g, delta) ==
    [a \in {b \in DOMAIN g : Residual(g, b) >= delta} |-> Residual(g, a)]

Successors(R, u) == {a[2] : a \in {b \in DOMAIN R : b[1] = u}}

Last(p) == p[Len(p)]

(* breadth-first search: walks holds every fewest-hop walk to each node of the *)
(* current level; the first level that contains the sink gives the result.     *)
RECURSIVE BFSPaths(_, _, _, _)
BFSPaths(R, walks, visited, t) ==
    LET hits == {p \in walks : Last(p) = t}
        next == UNION {{Append(p, w) : w \in Successors(R, Last(p)) \ visited} : p \in walks}
    IN  IF hits # {} THEN hits
        ELSE IF next = {} THEN {}
        ELSE WithValue(<<next, visited \cup {Last(p) : p \in next}>>,
                       LAMBDA level : BFSPaths(R, level[1], level[2], t))

(* the candidates of nx.shortest_path(R, s, t): every fewest-hop path *)
ShortestPaths(R, s, t) == WithValue(R, LAMBDA R1 : BFSPaths(R1, {<<s>>}, {s}, t))

(* nx.shortest_path raises NodeNotFound, which is not NetworkXNoPath, when   *)
(* an endpoint is not a node of the graph it searches                        *)
NodeNotFound(R, s, t) == s \notin NodesOf(R) \/ t \notin NodesOf(R)

PathArcs(p) == {Arc(p[i], p[i + 1]) : i \in 1..(Len(p) - 1)}

SetMin(xs) == CHOOSE x \in xs : \A y \in xs : x <= y

SetMax(xs) == CHOOSE x \in xs : \A y \in xs : x >= y

(* variant: max taken instead of min *)
BottleneckMax(R, p) == SetMax({R[a] : a \in PathArcs(p)})

(* bottleneck = min over the arcs of the path of R[u][v]['capacity'] *)
Bottleneck(R, p) == SetMin({R[a] : a \in PathArcs(p)})

(* variant: the loop always takes the reverse-arc branch *)
AugmentArcBackward(g, u, v, b) == [g EXCEPT ![Arc(v, u)].flow = @ - b]

(* if graph.has_edge(u, v) and graph[u][v]['capacity'] >= graph[u][v]['flow'] + bottleneck *)
TakesForward(g, u, v, b) ==
    HasEdge(g, u, v) /\ g[Arc(u, v)].capacity >= g[Arc(u, v)].flow + b

(* variant: the forward branch is taken only below capacity *)
AugmentArcStrict(g, u, v, b) ==
    IF HasEdge(g, u, v) /\ g[Arc(u, v)].capacity > g[Arc(u, v)].flow + b
    THEN [g EXCEPT ![Arc(u, v)].flow = @ + b]
    ELSE [g EXCEPT ![Arc(v, u)].flow = @ - b]

(* one iteration of the augmentation loop *)
AugmentArc(g, u, v, b) ==
    IF TakesForward(g, u, v, b)
    THEN [g EXCEPT ![Arc(u, v)].flow = @ + b]
    ELSE [g EXCEPT ![Arc(v, u)].flow = @ - b]

RECURSIVE AugmentFrom(_, _, _, _)
AugmentFrom(g, p, b, i) ==
    IF i > Len(p) - 1 THEN g
    ELSE WithValue(AugmentArc(g, p[i], p[i + 1], b), LAMBDA g1 : AugmentFrom(g1, p, b, i + 1))

(* variant: the loop starts at the second arc of the path *)
AugmentSkipFirst(g, p, b) == AugmentFrom(g, p, b, 2)

(* for i in range(len(path) - 1): ... *)
Augment(g, p, b) == AugmentFrom(g, p, b, 1)

-----------------------------------------------------------------------------
(* Outcomes of step() *)

Result(kind, path, bottleneck) == [kind |-> kind, path |-> path, bottleneck |-> bottleneck]

NoCall == Result("none", <<>>, 0)

Raised == Result("raise", <<>>, 0)

(* FordFulkerson.step: return None, 0 *)
FFNoPath == Result("nopath", <<>>, 0)

(* CapacityScaling.step: return None, 0, "Algorithm Complete" *)
CSComplete == Result("complete", <<>>, 0)

(* CapacityScaling.step: return [], 0, "No path at Delta=... Reducing Delta to ..." *)
CSReduce == Result("reduce", <<>>, 0)

(* variant: completion tested with delta < 0 *)
IsCompleteNegative(delta) == delta < 0

(* variant: completion tested with delta <= 1 *)
IsCompleteAtOne(delta) == delta <= 1

(* if self.delta < 1 *)
IsComplete(delta) == delta < 1

(* variant: delta lowered by one *)
HalveDecrement(delta) == delta - 1

(* self.delta //= 2 *)
Halve(delta) == delta \div 2

(* no arcade solver has been called *)
NoArcade == [call |-> "none", input |-> <<>>, result |-> [kind |-> "none"]]

-----------------------------------------------------------------------------
Init ==
    /\ rail_data \in EdgeLists
    /\ ff_graph = EmptyGraph
    /\ ff_flow_val = 0
    /\ ff_res = NoCall
    /\ cs_graph = EmptyGraph
    /\ cs_delta = 0
    /\ cs_res = NoCall
    /\ cs_total = 0
    /\ arcade = NoArcade

(* FordFulkerson.build_graph(data) *)
FFBuildWith(data) ==
    /\ ff_graph' = RebuildGraph(ff_graph, data)
    /\ ff_flow_val' = 0
    /\ ff_res' = NoCall
    /\ UNCHANGED <<rail_data, arcade, cs_vars>>

(* FordFulkerson.build_graph(rail_data) *)
FFBuild == FFBuildWith(rail_data)

(* FordFulkerson.step() run on the engine state (g, flow_val) *)
FFStepOn(g, flow_val) ==
    LET R == GetResidualGraph(g)
    IN  IF NodeNotFound(R, Source, Sink)
        THEN /\ ff_res' = Raised
             /\ ff_graph' = g
             /\ ff_flow_val' = flow_val
        ELSE IF ShortestPaths(R, Source, Sink) = {}
        THEN /\ ff_res' = FFNoPath
             /\ ff_graph' = g
             /\ ff_flow_val' = flow_val
        ELSE \E path \in ShortestPaths(R, Source, Sink) :
                LET bottleneck == Bottleneck(R, path)
                IN  /\ ff_graph' = Augment(g, path, bottleneck)
                    /\ ff_flow_val' = flow_val + bottleneck
                    /\ ff_res' = Result("path", path, bottleneck)

(* FordFulkerson.step() *)
FFStep ==
    /\ FFStepOn(ff_graph, ff_flow_val)
    /\ UNCHANGED <<rail_data, arcade, cs_vars>>

(* variant: the step buttons never load the graph *)
NeverAutoLoad(g) == FALSE

(* if not self.ff_engine.graph.nodes / if not self.cs_engine.graph.nodes *)
NeedsAutoLoad(g) == NodesOf(g) = {}

(* tui.py on_button_pressed, btn_ff_step: auto-load when the graph has no   *)
(* nodes, then step(); an exception of step() is caught and logged          *)
BtnFFStep ==
    /\ IF NeedsAutoLoad(ff_graph)
       THEN FFStepOn(RebuildGraph(ff_graph, rail_data), 0)
       ELSE FFStepOn(ff_graph, ff_flow_val)
    /\ UNCHANGED <<rail_data, arcade, cs_vars>>

(* CapacityScaling.build_graph(data) *)
CSBuildWith(data) ==
    /\ cs_graph' = RebuildGraph(cs_graph, data)
    /\ cs_delta' = InitialDelta(MaxDeclaredCap(data))
    /\ cs_res' = NoCall
    /\ cs_total' = 0
    /\ UNCHANGED <<rail_data, arcade, ff_vars>>

(* CapacityScaling.build_graph(rail_data) *)
CSBuild == CSBuildWith(rail_data)

(* CapacityScaling.step() run on the engine state (g, delta, total) *)
CSStepOn(g, delta, total) ==
    IF IsComplete(delta)
    THEN /\ cs_res' = CSComplete
         /\ cs_graph' = g
         /\ cs_delta' = delta
         /\ cs_total' = total
    ELSE LET R_delta == DeltaResidualGraph(g, delta)
         IN  IF NodeNotFound(R_delta, Source, Sink)
             THEN /\ cs_res' = Raised
                  /\ cs_graph' = g
                  /\ cs_delta' = delta
                  /\ cs_total' = total
             ELSE IF ShortestPaths(R_delta, Source, Sink) = {}
             THEN /\ cs_delta' = Halve(delta)
                  /\ cs_res' = CSReduce
                  /\ cs_graph' = g
                  /\ cs_total' = total
             ELSE \E path \in ShortestPaths(R_delta, Source, Sink) :
                     LET bottleneck == Bottleneck(R_delta, path)
                     IN  /\ cs_graph' = Augment(g, path, bottleneck)
                         /\ cs_total' = total + bottleneck
                         /\ cs_res' = Result("path", path, bottleneck)
                         /\ cs_delta' = delta

(* CapacityScaling.step() *)
CSStep ==
    /\ CSStepOn(cs_graph, cs_delta, cs_total)
    /\ UNCHANGED <<rail_data, arcade, ff_vars>>

(* tui.py on_button_pressed, btn_cs_step: auto-load when the graph has no   *)
(* nodes, then step(); an exception of step() is caught and logged          *)
BtnCSStep ==
    /\ IF NeedsAutoLoad(cs_graph)
       THEN CSStepOn(RebuildGraph(cs_graph, rail_data), InitialDelta(MaxDeclaredCap(rail_data)), 0)
       ELSE CSStepOn(cs_graph, cs_delta, cs_total)
    /\ UNCHANGED <<rail_data, arcade, ff_vars>>

Next == FFBuild \/ FFStep \/ CSBuild \/ CSStep

Spec == Init /\ [][Next]_vars

(* the engines driven from an edge list that declares a negative capacity *)
InitNegative ==
    /\ rail_data \in NegativeEdgeLists
    /\ ff_graph = EmptyGraph
    /\ ff_flow_val = 0
    /\ ff_res = NoCall
    /\ cs_graph = EmptyGraph
    /\ cs_delta = 0
    /\ cs_res = NoCall
    /\ cs_total = 0
    /\ arcade = NoArcade

NegativeSpec == InitNegative /\ [][Next]_vars

(* the engines rebuilt from edge lists that differ from one build to the next *)
ReverseDeclaredData == << Edge("S", "A", 2), Edge("A", "S", 1), Edge("A", "T", 1) >>

OverwriteData == << Edge("S", "T", 1), Edge("S", "T", 2), Edge("T", "T", 1) >>

RebuildLists == {<<>>, DiamondData, BlockingData, ReverseDeclaredData, OverwriteData}

FFRebuild == \E data \in RebuildLists : FFBuildWith(data)

CSRebuild == \E data \in RebuildLists : CSBuildWith(data)

InitRebuild ==
    /\ rail_data = DEFAULT_RAIL_DATA
    /\ ff_graph = EmptyGraph
    /\ ff_flow_val = 0
    /\ ff_res = NoCall
    /\ cs_graph = EmptyGraph
    /\ cs_delta = 0
    /\ cs_res = NoCall
    /\ cs_total = 0
    /\ arcade = NoArcade

RebuildNext == FFRebuild \/ FFStep \/ CSRebuild \/ CSStep

RebuildSpec == InitRebuild /\ [][RebuildNext]_vars

(* the four core buttons pressed in any order *)
TuiNext == FFBuild \/ BtnFFStep \/ CSBuild \/ BtnCSStep

TuiSpec == Init /\ [][TuiNext]_vars

(* the plain step button pressed again and again *)
PlainRunSpec == Init /\ [][BtnFFStep]_vars /\ WF_vars(BtnFFStep)

(* the scaling step button pressed again and again *)
ScalingRunSpec == Init /\ [][BtnCSStep]_vars /\ WF_vars(BtnCSStep)

-----------------------------------------------------------------------------
TypeOK ==
    /\ rail_data \in EdgeLists
    /\ ff_flow_val \in Nat
    /\ cs_delta \in Nat
    /\ cs_total \in Nat
    /\ ff_res.kind \in {"none", "raise", "nopath", "path"}
    /\ cs_res.kind \in {"none", "raise", "complete", "reduce", "path"}

-----------------------------------------------------------------------------
(* Quantities the properties speak about *)

RECURSIVE SumOver(_, _, _)
SumOver(g, arcs, field) ==
    IF arcs = {} THEN 0
    ELSE LET a == CHOOSE x \in arcs : TRUE
         IN  g[a][field] + SumOver(g, arcs \ {a}, field)

ArcsInto(g, n) == {a \in DOMAIN g : a[2] = n}

ArcsOutOf(g, n) == {a \in DOMAIN g : a[1] = n}

FlowInto(g, n) == SumOver(g, ArcsInto(g, n), "flow")

FlowOutOf(g, n) == SumOver(g, ArcsOutOf(g, n), "flow")

(* capacity of the cut (A, complement of A) *)
CutCapacity(g, A) == SumOver(g, {a \in DOMAIN g : a[1] \in A /\ a[2] \notin A}, "capacity")

(* value of a maximum s-t flow of g, as the capacity of a minimum s-t cut *)
MaxFlowValue(g, s, t) ==
    SetMin({CutCapacity(g, A \cup {s}) : A \in SUBSET (NodesOf(g) \ {s, t})})

Declared(g) == Source \in NodesOf(g) /\ Sink \in NodesOf(g)

Conserved(g) == \A n \in NodesOf(g) \ {Source, Sink} : FlowInto(g, n) = FlowOutOf(g, n)

-----------------------------------------------------------------------------
(* C1: once FordFulkerson.step() has reported that no augmenting path exists, *)
(* flow_val is the value of a maximum Source-Sink flow of the declared graph. *)
C1_TerminalIsMaxFlow ==
    ff_res.kind = "nopath" =>
        ff_flow_val = MaxFlowValue(BuildGraph(rail_data), Source, Sink)

(* C2: when source and sink are nodes of the built graph, step() of either     *)
(* stepper never raises: a search that cannot reach the sink, also one whose   *)
(* filtered residual graph has lost the source or the sink, returns the        *)
(* explicit no-path / terminal result.                                         *)
C2_NoPathNeverRaises ==
    /\ Declared(ff_graph) => ff_res.kind # "raise"
    /\ Declared(cs_graph) => cs_res.kind # "raise"

(* C3: the total pushed by CapacityScaling once delta < 1 equals the flow_val *)
(* of FordFulkerson at its terminal result on the same edge list.             *)
C3_ScalingTotalEqualsPlain ==
    (/\ ff_res.kind = "nopath"
     /\ DOMAIN cs_graph = DOMAIN ff_graph
     /\ cs_res.kind \in {"reduce", "complete"}
     /\ cs_delta < 1) => cs_total = ff_flow_val

(* C4: after build_graph and any number of completed FordFulkerson.step()     *)
(* calls, the flow on the arcs entering the sink, the flow on the arcs        *)
(* leaving the source and flow_val are all equal.                             *)
C4_SourceSinkTotals ==
    /\ FlowInto(ff_graph, Sink) = ff_flow_val
    /\ FlowOutOf(ff_graph, Source) = ff_flow_val

C4_Witness ==
    /\ ff_res.kind = "path"
    /\ Len(ff_res.path) >= 3
    /\ ff_flow_val > ff_res.bottleneck
    /\ FlowInto(ff_graph, Sink) = ff_flow_val

(* C5: after every step() of either stepper that returns an augmenting path,  *)
(* every node other than source and sink has inflow equal to outflow.         *)
C5_Conservation ==
    /\ ff_res.kind = "path" => Conserved(ff_graph)
    /\ cs_res.kind = "path" => Conserved(cs_graph)

C5_Witness ==
    /\ ff_res.kind = "path" /\ Len(ff_res.path) >= 3
    /\ cs_res.kind = "path" /\ Len(cs_res.path) >= 3
    /\ \E n \in NodesOf(cs_graph) \ {Source, Sink} : FlowInto(cs_graph, n) > 0
    /\ \E n \in NodesOf(ff_graph) \ {Source, Sink} : FlowInto(ff_graph, n) > 0

(* C6: in every reachable state every arc, declared or implicit reverse, has *)
(* flow <= capacity, and every arc of a path chosen by step() of either       *)
(* stepper has residual >= the bottleneck >= 0 at the moment it is chosen.    *)
CapacityRespected(g) == \A a \in DOMAIN g : g[a].flow <= g[a].capacity

ChosenWithin(g, res) ==
    /\ res.bottleneck >= 0
    /\ \A a \in PathArcs(res.path) : a \in DOMAIN g /\ Residual(g, a) >= res.bottleneck

C6_CapacityAndResidual ==
    /\ [](CapacityRespected(ff_graph) /\ CapacityRespected(cs_graph))
    /\ [][/\ (FFStep /\ ff_res'.kind = "path") => ChosenWithin(ff_graph, ff_res')
          /\ (CSStep /\ cs_res'.kind = "path") => ChosenWithin(cs_graph, cs_res')]_vars

C6_Witness ==
    /\ ff_res.kind = "path" /\ ff_res.bottleneck >= 2
    /\ cs_res.kind = "path" /\ cs_res.bottleneck > cs_delta
    /\ \E a \in DOMAIN ff_graph : ff_graph[a].flow = ff_graph[a].capacity /\ ff_graph[a].flow > 0
    /\ \E a \in DOMAIN cs_graph : cs_graph[a].flow = cs_graph[a].capacity /\ cs_graph[a].flow > 0

(* C7: once a stepper has returned its terminal signal (plain: no path found; *)
(* scaling: delta < 1), every later step() returns that same signal and       *)
(* leaves every arc's flow, flow_val and delta unchanged.                     *)
C7_TerminalIsIdempotent ==
    [][/\ (FFStep /\ ff_res.kind = "nopath") =>
              (ff_res' = FFNoPath /\ UNCHANGED <<ff_graph, ff_flow_val>>)
       /\ (CSStep /\ (cs_delta < 1 \/ cs_res.kind = "complete")) =>
              (cs_res' = CSComplete /\ UNCHANGED <<cs_graph, cs_delta, cs_total>>)]_vars

C7_Witness ==
    /\ ff_res.kind = "nopath" /\ ff_flow_val > 0
    /\ cs_res.kind = "complete" /\ cs_total > 0 /\ cs_delta < 1

(* C8: from a graph built from a non-empty edge list, repeated                *)
(* CapacityScaling.step() calls eventually reach COMPLETE: delta drops below  *)
(* 1 and step() returns the completion signal.                                *)
C8_EventuallyComplete ==
    (Len(rail_data) > 0) => <>(cs_delta < 1 /\ cs_res.kind = "complete")

(* C9 as stated: the "no path, reducing delta" result is returned only when   *)
(* the new delta is still >= 1; the call that takes delta below 1 returns the *)
(* terminal signal.                                                           *)
C9_ReduceOnlyAboveOne == cs_res.kind = "reduce" => cs_delta >= 1

(* C9 amended: a step() that finds no path always returns the "no path,       *)
(* reducing delta" result, also when halving takes delta below 1; the         *)
(* terminal signal is returned exactly by the calls that start with delta < 1 *)
C9_TerminalOnNextCall ==
    [][CSStep =>
          /\ (cs_res'.kind = "complete") <=> (cs_delta < 1)
          /\ (cs_delta >= 1 /\ cs_delta' < 1) => (cs_res' = CSReduce /\ cs_delta' = 0)
          /\ (cs_res'.kind = "reduce") => (cs_delta >= 1 /\ cs_delta' = cs_delta \div 2)]_vars

C9_Witness ==
    /\ cs_res.kind = "reduce"
    /\ cs_delta = 0
    /\ cs_total > 0

IsPowerOfTwo(d) == \E k \in 0..16 : d = 2 ^ k

DeclaredCaps(edges) == {edges[i].capacity : i \in 1..Len(edges)}

LargestPowerOfTwoBelow(d, m) == IsPowerOfTwo(d) /\ d <= m /\ m < 2 * d

C11_NegativeCapacityRejected ==
    (\E i \in 1..Len(rail_data) : rail_data[i].capacity < 0) =>
        (ff_graph = EmptyGraph /\ cs_graph = EmptyGraph)

(* the nodes reachable from s along the arcs of R *)
RECURSIVE ReachableFrom(_, _)
ReachableFrom(R, seen) ==
    LET more == {a[2] : a \in {b \in DOMAIN R : b[1] \in seen}} \ seen
    IN  IF more = {} THEN seen ELSE ReachableFrom(R, seen \cup more)

SourceSide(g) == ReachableFrom(GetResidualGraph(g), {Source})

(* C12: after the plain stepper's terminal result, the set A of nodes         *)
(* reachable from the source in get_residual_graph() contains the source, not *)
(* the sink, and the declared capacity from A to its complement is flow_val.  *)
C12_CutEqualsFlow ==
    ff_res.kind = "nopath" =>
        /\ Source \in SourceSide(ff_graph)
        /\ Sink \notin SourceSide(ff_graph)
        /\ CutCapacity(ff_graph, SourceSide(ff_graph)) = ff_flow_val

-----------------------------------------------------------------------------
(* arcade/airline.py                                                         *)
(* The networks of the arcade solvers are nx.DiGraph objects whose arcs carry *)
(* a capacity only.                                                           *)

MaxFlights == 3

MaxTime == 2

FlightIds == <<"A1", "A2", "B1", "B2", "C1", "C2">>

Flight(id, start, end) == [id |-> id, start |-> start, end |-> end]

(* flight lists with distinct ids and start <= end *)
FlightLists ==
    UNION {{[i \in 1..n |-> Flight(FlightIds[i], times[i][1], times[i][2])] :
              times \in [1..n -> {t \in (0..MaxTime) \X (0..MaxTime) : t[1] <= t[2]}]} :
           n \in 0..MaxFlights}

(* the flights of the btn_air handler *)
DemoFlights == << Flight("A1", 0, 4), Flight("A2", 5, 9), Flight("B1", 2, 6) >>

(* G.add_edge(u, v, capacity=c) *)
AddCapEdge(G, u, v, c) ==
    [a \in DOMAIN G \cup {Arc(u, v)} |-> IF a = Arc(u, v) THEN [capacity |-> c] ELSE G[a]]

EmptyNetwork == [a \in {} |-> [capacity |-> 0]]

RECURSIVE AirlineTaskArcs(_, _, _)
AirlineTaskArcs(G, flights, i) ==
    IF i > Len(flights) THEN G
    ELSE WithValue(
             AddCapEdge(AddCapEdge(G, Source, flights[i].id \o "_in", 1),
                        flights[i].id \o "_out", Sink, 1),
             LAMBDA G1 : AirlineTaskArcs(G1, flights, i + 1))

(* if f1 == f2: continue; if f1['end'] <= f2['start'] *)
Compatible(f1, f2) == f1 # f2 /\ f1.end <= f2.start

RECURSIVE AirlinePairArcs(_, _, _)
AirlinePairArcs(G, flights, k) ==
    LET n  == Len(flights)
        f1 == flights[((k - 1) \div n) + 1]
        f2 == flights[((k - 1) % n) + 1]
    IN  IF k > n * n THEN G
        ELSE WithValue(
                 IF Compatible(f1, f2) THEN AddCapEdge(G, f1.id \o "_in", f2.id \o "_out", 1) ELSE G,
                 LAMBDA G1 : AirlinePairArcs(G1, flights, k + 1))

(* the network solve_airline builds *)
AirlineNetwork(flights) ==
    AirlinePairArcs(AirlineTaskArcs(EmptyNetwork, flights, 1), flights, 1)

(* nx.maximum_flow(G, s, t)[0]: NetworkXError when s or t is not a node of G, *)
(* else the value of a maximum flow                                           *)
NxMaximumFlow(G, s, t) ==
    IF s \notin NodesOf(G) \/ t \notin NodesOf(G)
    THEN [kind |-> "raise"]
    ELSE [kind |-> "ok", value |-> MaxFlowValue(G, s, t)]

(* solve_airline(flights) *)
SolveAirlineResult(flights) ==
    LET n    == Len(flights)
        flow == NxMaximumFlow(AirlineNetwork(flights), Source, Sink)
    IN  IF flow.kind = "raise" THEN [kind |-> "raise"]
        ELSE [kind |-> "ok", min_crews |-> n - flow.value, flow_val |-> flow.value]

-----------------------------------------------------------------------------
(* arcade/baseball.py                                                        *)

MaxWins == 2

MaxGames == 1

(* float('inf'): larger than every finite cut of the networks built here *)
Infinity == 1000

TargetTeam == "DET"

TeamOrder == <<"DET", "A", "B">>

(* teams_data: a dict in insertion order, name -> {wins, remaining: name -> games} *)
TeamsOn(present) ==
    LET names == SelectSeq(TeamOrder, LAMBDA t : t \in present)
    IN  {[i \in 1..Len(names) |-> [name |-> names[i], wins |-> w[i], remaining |-> r[i]]] :
            w \in [1..Len(names) -> 0..MaxWins],
            r \in {rr \in [1..Len(names) -> UNION {[present \ {t} -> 0..MaxGames] : t \in present}] :
                      \A i \in 1..Len(names) : DOMAIN rr[i] = present \ {names[i]}}}

TeamsDataSets == UNION {TeamsOn(present) : present \in SUBSET {"DET", "A", "B"}}

TeamNamesOf(teams_data) == {teams_data[i].name : i \in 1..Len(teams_data)}

TeamStats(teams_data, t) ==
    teams_data[CHOOSE i \in 1..Len(teams_data) : teams_data[i].name = t]

RECURSIVE SumValues(_)
SumValues(remaining) ==
    IF DOMAIN remaining = {} THEN 0
    ELSE LET k == CHOOSE x \in DOMAIN remaining : TRUE
         IN  remaining[k] + SumValues([x \in DOMAIN remaining \ {k} |-> remaining[x]])

(* max_wins = target_stats['wins'] + sum(target_stats['remaining'].values()) *)
MaxWinsOf(teams_data, target) ==
    TeamStats(teams_data, target).wins + SumValues(TeamStats(teams_data, target).remaining)

(* other_teams = [t for t in teams_data if t != target_team] *)
OtherTeams(teams_data, target) ==
    LET others == SelectSeq(teams_data, LAMBDA d : d.name # target)
    IN  [i \in 1..Len(others) |-> others[i].name]

(* cap = max_wins - teams_data[team]['wins'] *)
SinkCap(teams_data, target, team) ==
    MaxWinsOf(teams_data, target) - TeamStats(teams_data, team).wins

(* if cap < 0: return True, "Trivial Elimination..." *)
TrivialElimination(teams_data, target) ==
    \E i \in 1..Len(OtherTeams(teams_data, target)) :
        SinkCap(teams_data, target, OtherTeams(teams_data, target)[i]) < 0

RECURSIVE TeamSinkArcs(_, _, _, _)
TeamSinkArcs(G, teams_data, target, i) ==
    LET others == OtherTeams(teams_data, target)
    IN  IF i > Len(others) THEN G
        ELSE WithValue(AddCapEdge(G, others[i], Sink, SinkCap(teams_data, target, others[i])),
                       LAMBDA G1 : TeamSinkArcs(G1, teams_data, target, i + 1))

(* games_left = teams_data[t1]['remaining'].get(t2, 0) *)
GamesLeft(teams_data, t1, t2) ==
    LET remaining == TeamStats(teams_data, t1).remaining
    IN  IF t2 \in DOMAIN remaining THEN remaining[t2] ELSE 0

GameNode(t1, t2) == "G_" \o t1 \o "_" \o t2

GamePairs(teams_data, target) ==
    LET others == OtherTeams(teams_data, target)
    IN  {<<others[q[1]], others[q[2]]>> :
            q \in {x \in (1..Len(others)) \X (1..Len(others)) : x[1] < x[2]}}

(* body of the pair loop for one pair with games_left > 0 *)
AddGame(G, t1, t2, games_left) ==
    AddCapEdge(AddCapEdge(AddCapEdge(G, Source, GameNode(t1, t2), games_left),
                          GameNode(t1, t2), t1, Infinity),
               GameNode(t1, t2), t2, Infinity)

RECURSIVE GameArcs(_, _, _)
GameArcs(G, teams_data, pairs) ==
    IF pairs = {} THEN G
    ELSE LET q == CHOOSE x \in pairs : TRUE
         IN  WithValue(IF GamesLeft(teams_data, q[1], q[2]) > 0
                       THEN AddGame(G, q[1], q[2], GamesLeft(teams_data, q[1], q[2]))
                       ELSE G,
                       LAMBDA G1 : GameArcs(G1, teams_data, pairs \ {q}))

BaseballNetwork(teams_data, target) ==
    GameArcs(TeamSinkArcs(EmptyNetwork, teams_data, target, 1), teams_data,
             GamePairs(teams_data, target))

RECURSIVE SumGames(_, _)
SumGames(teams_data, pairs) ==
    IF pairs = {} THEN 0
    ELSE LET q == CHOOSE x \in pairs : TRUE
         IN  GamesLeft(teams_data, q[1], q[2]) + SumGames(teams_data, pairs \ {q})

(* total_games_capacity *)
TotalGamesCapacity(teams_data, target) == SumGames(teams_data, GamePairs(teams_data, target))

(* solve_baseball(teams_data, target_team) *)
SolveBaseballResult(teams_data, target) ==
    IF target \notin TeamNamesOf(teams_data)
    THEN [kind |-> "ok", eliminated |-> FALSE, message |-> "Team not found", flow_computed |-> FALSE]
    ELSE IF TrivialElimination(teams_data, target)
    THEN [kind |-> "ok", eliminated |-> TRUE, message |-> "Trivial Elimination", flow_computed |-> FALSE]
    ELSE LET flow == NxMaximumFlow(BaseballNetwork(teams_data, target), Source, Sink)
         IN  IF flow.kind = "raise" THEN [kind |-> "raise"]
             ELSE [kind |-> "ok",
                   eliminated |-> flow.value < TotalGamesCapacity(teams_data, target),
                   message |-> "Flow", flow_computed |-> TRUE, flow_val |-> flow.value]

(* a pressed arcade button whose handler has not run yet *)
Pending(call, input) == [call |-> call, input |-> input, result |-> [kind |-> "pending"]]

ArcadeRequests ==
    {Pending("airline", flights) : flights \in FlightLists \cup {DemoFlights}}
        \cup {Pending("baseball", teams_data) : teams_data \in TeamsDataSets}

SolveAirline ==
    /\ arcade.call = "airline"
    /\ arcade.result.kind = "pending"
    /\ arcade' = [arcade EXCEPT !.result = SolveAirlineResult(arcade.input)]
    /\ UNCHANGED <<rail_data, ff_vars, cs_vars>>

SolveBaseball ==
    /\ arcade.call = "baseball"
    /\ arcade.result.kind = "pending"
    /\ arcade' = [arcade EXCEPT !.result = SolveBaseballResult(arcade.input, TargetTeam)]
    /\ UNCHANGED <<rail_data, ff_vars, cs_vars>>

(* the application with the engines untouched and one arcade button pressed *)
InitArcade ==
    /\ rail_data = DEFAULT_RAIL_DATA
    /\ ff_graph = EmptyGraph
    /\ ff_flow_val = 0
    /\ ff_res = NoCall
    /\ cs_graph = EmptyGraph
    /\ cs_delta = 0
    /\ cs_res = NoCall
    /\ cs_total = 0
    /\ arcade \in ArcadeRequests

ArcadeNext == SolveAirline \/ SolveBaseball

ArcadeSpec == InitArcade /\ [][ArcadeNext]_vars

-----------------------------------------------------------------------------
(* a crew plan: nxt[i] is the task the crew of task i does next (0: none);    *)
(* no task is the next of two tasks, consecutive tasks are compatible and no  *)
(* task follows itself after any number of steps                              *)
RECURSIVE EndsWithin(_, _, _)
EndsWithin(nxt, i, steps) ==
    IF i = 0 THEN TRUE
    ELSE IF steps = 0 THEN FALSE
    ELSE EndsWithin(nxt, nxt[i], steps - 1)

CrewPlans(flights) ==
    LET n == Len(flights)
    IN  {nxt \in [1..n -> 0..n] :
            /\ \A i \in 1..n : nxt[i] # 0 => flights[i].end <= flights[nxt[i]].start /\ nxt[i] # i
            /\ \A i, j \in 1..n : (i # j /\ nxt[i] # 0) => nxt[i] # nxt[j]
            /\ \A i \in 1..n : EndsWithin(nxt, i, n)}

(* a crew per task that has no predecessor in the plan *)
CrewsOf(flights, nxt) ==
    Cardinality({i \in 1..Len(flights) : \A j \in 1..Len(flights) : nxt[j] # i})

MinimumCrews(flights) == SetMin({CrewsOf(flights, nxt) : nxt \in CrewPlans(flights)})

(* C13: for a non-empty flight list with distinct ids and start <= end,       *)
(* solve_airline returns min_crews = n - max flow, which is the minimum       *)
(* number of crews that covers every task once with end <= start between the  *)
(* consecutive tasks of a crew; 1 <= min_crews <= n; the demo flights need 2. *)
C13_MinCrews ==
    (arcade.call = "airline" /\ arcade.result.kind # "pending" /\ Len(arcade.input) > 0) =>
        /\ arcade.result.kind = "ok"
        /\ arcade.result.min_crews = Len(arcade.input) - arcade.result.flow_val
        /\ arcade.result.min_crews = MinimumCrews(arcade.input)
        /\ 1 <= arcade.result.min_crews
        /\ arcade.result.min_crews <= Len(arcade.input)
        /\ arcade.input = DemoFlights => arcade.result.min_crews = 2

(* C14: for teams_data with the target team and at least one other team,     *)
(* solve_baseball returns a result: eliminated without a flow computation if  *)
(* some other team's wins exceed max_wins; otherwise eliminated iff the       *)
(* maximum flow of the network is below the sum of games_left over the pairs  *)
(* of other teams, hence not eliminated when that sum is 0.                   *)
C14_Elimination ==
    (/\ arcade.call = "baseball"
     /\ arcade.result.kind # "pending"
     /\ TargetTeam \in TeamNamesOf(arcade.input)
     /\ Len(arcade.input) >= 2) =>
        /\ arcade.result.kind = "ok"
        /\ TrivialElimination(arcade.input, TargetTeam) =>
               (arcade.result.eliminated /\ ~arcade.result.flow_computed)
        /\ ~TrivialElimination(arcade.input, TargetTeam) =>
               /\ arcade.result.eliminated =
                      (MaxFlowValue(BaseballNetwork(arcade.input, TargetTeam), Source, Sink)
                           < TotalGamesCapacity(arcade.input, TargetTeam))
               /\ TotalGamesCapacity(arcade.input, TargetTeam) = 0 => ~arcade.result.eliminated

(* the arcs an edge list declares, their reverses, and the capacity the last *)
(* declaration of an arc gives it                                            *)
DeclaredArcs(data) == {Arc(data[i].u, data[i].v) : i \in 1..Len(data)}

ReverseOf(a) == Arc(a[2], a[1])

LastCapacity(data, a) ==
    data[SetMax({i \in 1..Len(data) : Arc(data[i].u, data[i].v) = a})].capacity

(* g holds exactly the arcs of data and their reverses, all with flow 0 *)
FreshFrom(g, data) ==
    /\ g = BuildGraph(data)
    /\ DOMAIN g = DeclaredArcs(data) \cup {ReverseOf(a) : a \in DeclaredArcs(data)}
    /\ \A a \in DOMAIN g :
          /\ g[a].flow = 0
          /\ g[a].capacity = IF a \in DeclaredArcs(data) THEN LastCapacity(data, a) ELSE 0

Paired(g) == \A a \in DOMAIN g : ReverseOf(a) \in DOMAIN g

SameArcsAndCapacities(g, h) ==
    DOMAIN g = DOMAIN h /\ \A a \in DOMAIN g : g[a].capacity = h[a].capacity

(* C15: build_graph after any earlier builds and steps gives the state of a   *)
(* fresh engine built from the same edge list (only the arcs of the list and  *)
(* their reverses, an undeclared reverse with capacity 0, every flow 0,       *)
(* flow_val 0, delta re-initialized); afterwards every arc keeps its paired   *)
(* arc and every step leaves the arcs and their capacities as built.          *)
C15_RebuildIsFresh ==
    /\ [](Paired(ff_graph) /\ Paired(cs_graph))
    /\ [][/\ \A data \in RebuildLists :
               /\ FFBuildWith(data) => (FreshFrom(ff_graph', data) /\ ff_flow_val' = 0)
               /\ CSBuildWith(data) =>
                      /\ FreshFrom(cs_graph', data)
                      /\ cs_delta' = InitialDelta(MaxDeclaredCap(data))
          /\ FFStep => SameArcsAndCapacities(ff_graph, ff_graph')
          /\ CSStep => SameArcsAndCapacities(cs_graph, cs_graph')]_vars

(* both engines rebuilt from a list other than the one they last stepped on *)
C15_Witness ==
    /\ ff_graph = BuildGraph(ReverseDeclaredData)
    /\ ff_res = NoCall
    /\ cs_graph = BuildGraph(OverwriteData)
    /\ cs_res = NoCall
    /\ cs_delta = 2

IsSimple(p) == \A i, j \in 1..Len(p) : i # j => p[i] # p[j]

ArcsAlong(p) == {Arc(p[i], p[i + 1]) : i \in 1..(Len(p) - 1)}

(* p is a simple Source-Sink path of g over arcs with residual >= least, and  *)
(* b is the smallest residual along it                                        *)
IsAugmentingPath(g, p, b, least) ==
    /\ Len(p) >= 2
    /\ p[1] = Source
    /\ Last(p) = Sink
    /\ IsSimple(p)
    /\ \A a \in ArcsAlong(p) : a \in DOMAIN g /\ Residual(g, a) >= least
    /\ b = SetMin({Residual(g, a) : a \in ArcsAlong(p)})

(* h is g with the flow of exactly the arcs along p raised by b *)
AugmentedAlong(g, h, p, b) ==
    /\ DOMAIN h = DOMAIN g
    /\ \A a \in DOMAIN g :
          /\ h[a].capacity = g[a].capacity
          /\ h[a].flow = IF a \in ArcsAlong(p) THEN g[a].flow + b ELSE g[a].flow

(* C16: a FordFulkerson.step() that finds a path returns a simple Source-Sink *)
(* path over arcs that had residual > 0 with the minimum residual along it as *)
(* bottleneck, raises the flow of exactly the arcs of the path by the         *)
(* bottleneck, leaves every other flow and every capacity alone, and adds the *)
(* bottleneck to flow_val.                                                    *)
C16_PathStepFrame ==
    [][(FFStep /\ ff_res'.kind = "path") =>
          /\ IsAugmentingPath(ff_graph, ff_res'.path, ff_res'.bottleneck, 1)
          /\ ff_res'.bottleneck > 0
          /\ AugmentedAlong(ff_graph, ff_graph', ff_res'.path, ff_res'.bottleneck)
          /\ ff_flow_val' = ff_flow_val + ff_res'.bottleneck]_vars

(* a second augmentation that left the flow of an arc off its path in place *)
C16_Witness ==
    /\ ff_res.kind = "path"
    /\ ff_flow_val > ff_res.bottleneck
    /\ \E a \in DOMAIN ff_graph \ ArcsAlong(ff_res.path) : ff_graph[a].flow > 0

(* C17: between builds the delta of CapacityScaling is a power of two or 0    *)
(* and never increases; a step() that returns a path leaves delta alone, uses *)
(* only arcs whose residual was >= delta and returns the minimum residual of  *)
(* the path (>= delta) as bottleneck; a step() that finds no path replaces    *)
(* delta by delta div 2 and leaves every flow alone.                          *)
C17_DeltaDiscipline ==
    /\ [](cs_delta = 0 \/ IsPowerOfTwo(cs_delta))
    /\ [][CSStep =>
             /\ cs_delta' <= cs_delta
             /\ cs_res'.kind = "path" =>
                    /\ cs_delta' = cs_delta
                    /\ IsAugmentingPath(cs_graph, cs_res'.path, cs_res'.bottleneck, cs_delta)
                    /\ cs_res'.bottleneck >= cs_delta
                    /\ AugmentedAlong(cs_graph, cs_graph', cs_res'.path, cs_res'.bottleneck)
             /\ cs_res'.kind = "reduce" =>
                    /\ 2 * cs_delta' <= cs_delta
                    /\ cs_delta < 2 * cs_delta' + 2
                    /\ cs_graph' = cs_graph]_vars

(* delta halved from 8 to 4 after an augmentation of 8 on the rail network *)
C17_Witness ==
    /\ cs_res.kind = "reduce"
    /\ cs_delta = 4
    /\ cs_total = 8

FlowsNonNegative(g) == \A a \in DOMAIN g : g[a].flow >= 0

ZeroCapacityIdle(g) == \A a \in DOMAIN g : g[a].capacity = 0 => g[a].flow = 0

FlowsNotLowered(g, h) == \A a \in DOMAIN g : a \in DOMAIN h /\ h[a].flow >= g[a].flow

AllForward(g, res) ==
    res.kind = "path" => \A a \in ArcsAlong(res.path) : TakesForward(g, a[1], a[2], res.bottleneck)

(* C18: in both steppers every iteration of the augmentation loop takes the   *)
(* forward branch (the bottleneck fits into the residual of every arc of the  *)
(* path); between builds every flow is >= 0 and never lowered, and an arc of  *)
(* capacity 0 keeps flow 0.                                                   *)
C18_ForwardOnly ==
    /\ [](FlowsNonNegative(ff_graph) /\ FlowsNonNegative(cs_graph))
    /\ [](ZeroCapacityIdle(ff_graph) /\ ZeroCapacityIdle(cs_graph))
    /\ [][/\ FFStep => (AllForward(ff_graph, ff_res') /\ FlowsNotLowered(ff_graph, ff_graph'))
          /\ CSStep => (AllForward(cs_graph, cs_res') /\ FlowsNotLowered(cs_graph, cs_graph'))]_vars

(* both steppers have saturated an arc whose reverse arc has capacity 0 *)
C18_Witness ==
    /\ ff_res.kind = "path"
    /\ \E a \in ArcsAlong(ff_res.path) :
          /\ ff_graph[a].flow = ff_graph[a].capacity
          /\ ff_graph[ReverseOf(a)].capacity = 0
    /\ cs_res.kind = "path"
    /\ \E a \in ArcsAlong(cs_res.path) :
          /\ cs_graph[a].flow = cs_graph[a].capacity
          /\ cs_graph[ReverseOf(a)].capacity = 0

SourceCapacity(g) == SumOver(g, ArcsOutOf(g, Source), "capacity")

(* C19: every FordFulkerson.step() that finds a path raises flow_val by at    *)
(* least 1, flow_val never exceeds the sum of the capacities of the arcs      *)
(* leaving the source, and the stepper eventually reaches a state from which  *)
(* no step() finds a path or changes a flow.                                  *)
C19_PlainTerminates ==
    /\ [](ff_flow_val <= SourceCapacity(ff_graph))
    /\ [][BtnFFStep =>
             /\ ff_res'.kind = "path" => ff_flow_val' >= ff_flow_val + 1
             /\ ff_res'.kind # "path" =>
                    /\ ff_flow_val' = ff_flow_val
                    /\ ~NeedsAutoLoad(ff_graph) => ff_graph' = ff_graph]_vars
    /\ <>[](ff_res.kind \in {"nopath", "raise"})

(* the stepper has stopped after more than one augmentation *)
C19_Witness ==
    /\ ff_res.kind = "nopath"
    /\ ff_flow_val >= 2
    /\ \E a, b \in DOMAIN ff_graph :
          a # b /\ a[1] = Source /\ b[1] = Source /\ ff_graph[a].flow > 0 /\ ff_graph[b].flow > 0

(* the result of step() on the graph built from the rail data *)
SteppedFromLoad(g, res, data) ==
    /\ SameArcsAndCapacities(BuildGraph(data), g)
    /\ IF res.kind = "path"
       THEN AugmentedAlong(BuildGraph(data), g, res.path, res.bottleneck)
       ELSE g = BuildGraph(data)

(* C20: under any interleaving of the four core buttons a plain load or step  *)
(* leaves the arcs, flows and delta of the scaling engine unchanged, a        *)
(* scaling load or step leaves the arcs, flows and flow_val of the plain      *)
(* engine unchanged, and a step on an engine whose graph has no nodes builds  *)
(* the graph from the rail data before it steps.                              *)
C20_EnginesApart ==
    [][/\ (FFBuild \/ BtnFFStep) => UNCHANGED <<cs_graph, cs_delta>>
       /\ (CSBuild \/ BtnCSStep) => UNCHANGED <<ff_graph, ff_flow_val>>
       /\ (BtnFFStep /\ NodesOf(ff_graph) = {}) =>
              /\ SteppedFromLoad(ff_graph', ff_res', rail_data)
              /\ ff_flow_val' = ff_res'.bottleneck
       /\ (BtnCSStep /\ NodesOf(cs_graph) = {}) =>
              /\ SteppedFromLoad(cs_graph', cs_res', rail_data)
              /\ cs_res'.kind = "path" => cs_delta' = InitialDelta(MaxDeclaredCap(rail_data))]_vars

(* the plain engine loaded and stepped by its step button while the scaling   *)
(* engine is still as constructed                                             *)
C20_Witness ==
    /\ ff_res.kind = "path"
    /\ ff_flow_val = ff_res.bottleneck
    /\ NodesOf(cs_graph) = {}
    /\ cs_delta = 0
    /\ cs_res = NoCall

====
